---- MODULE Spec2Model ----
EXTENDS Integers, Sequences, FiniteSets, TLC

(***************************************************************************)
(* deluge-lint: the CLI (src/src/cli.ts main) and the rule evaluation      *)
(* engine (src/src/index.ts analyzeDeluge).                                *)
(*                                                                         *)
(* A source text is the sequence of its physical lines (what               *)
(* code.split('\n') yields, never empty).  A line is the sequence of its   *)
(* lexical pieces, each piece being the text it stands for; the regular    *)
(* expressions of the source are predicates on these pieces.               *)
(***************************************************************************)

VARIABLES pc, config, lines, isExcluded, fileRead, errors, braceStack,
          expectingLoopBrace, index, braces, bi, exitCode

vars == <<pc, config, lines, isExcluded, fileRead, errors, braceStack,
          expectingLoopBrace, index, braces, bi, exitCode>>

----------------------------------------------------------------------------
(* Bounds *)

\* longest source text read, in lines
MaxLines == 3

----------------------------------------------------------------------------
(* Lexical pieces of a line *)

WS       == "    "
FOREACH  == "for each r in records"
LBRACE   == "{"
RBRACE   == "}"
APICALL  == "zoho.crm.getRecords()"
INVOKE   == "invokeurl()"
LINECMT  == "//"
BLOCKCMT == "/*"
RECORDID == "409779000012345678"
SEMI     == ";"
COLON    == ":"
BADASSIGN  == "My_Var ="
GOODASSIGN == "myVar ="
IFKW     == "if (ok)"
ELSEKW   == "else"
WORD     == "info x"

\* String.prototype.trim on a line: leading and trailing whitespace removed
RECURSIVE TrimLeft(_)
TrimLeft(content) ==
  IF content # <<>> /\ Head(content) = WS THEN TrimLeft(Tail(content)) ELSE content

RECURSIVE TrimRight(_)
TrimRight(content) ==
  IF content # <<>> /\ content[Len(content)] = WS
  THEN TrimRight(SubSeq(content, 1, Len(content) - 1))
  ELSE content

Trim(content) == TrimRight(TrimLeft(content))

\* only the '//' form is taken for a comment line
IsCommentLineSlashes(trimmed) ==
  trimmed # <<>> /\ Head(trimmed) = LINECMT

\* trimmed.startsWith('//') || trimmed.startsWith('/*')
IsCommentLine(trimmed) ==
  trimmed # <<>> /\ Head(trimmed) \in {LINECMT, BLOCKCMT}

\* /\bfor\s+each\b/.test(content)
MatchesForEach(content) == \E i \in 1..Len(content) : content[i] = FOREACH

IsBrace(t) == t \in {LBRACE, RBRACE}

\* content.match(/[{}]/g), the empty sequence standing for null
MatchBraces(content) == SelectSeq(content, IsBrace)

\* /\d{18,20}/.test(content)
MatchesHardcodedId(content) == \E i \in 1..Len(content) : content[i] = RECORDID

\* /(zoho\.[a-zA-Z0-9_]+\.[a-zA-Z0-9_]+|invokeurl)\s*\(/.test(content)
MatchesApiCall(content) ==
  \E i \in 1..Len(content) : content[i] \in {APICALL, INVOKE}

\* trimmed.split('//')[0].trim()
RECURSIVE BeforeLineComment(_)
BeforeLineComment(trimmed) ==
  IF trimmed = <<>> \/ Head(trimmed) = LINECMT THEN <<>>
  ELSE <<Head(trimmed)>> \o BeforeLineComment(Tail(trimmed))

CodePart(trimmed) == Trim(BeforeLineComment(trimmed))

\* the condition of the require-semicolon rule on codePart
MissingSemicolon(codePart) ==
  /\ codePart # <<>>
  /\ codePart[Len(codePart)] \notin {SEMI, LBRACE, RBRACE, COLON}
  /\ Head(codePart) \notin {IFKW, ELSEKW, FOREACH}

\* content.match(/^\s*([a-zA-Z0-9_]+)\s*=/): the assignment piece that leads
\* the line after optional whitespace, <<>> standing for null
AssignmentMatch(content) ==
  LET t == TrimLeft(content)
  IN  IF t # <<>> /\ Head(t) \in {BADASSIGN, GOODASSIGN} THEN <<Head(t)>> ELSE <<>>

\* /^[a-z][a-zA-Z0-9]*$/.test(variableName)
IsCamelCase(assignment) == assignment = GOODASSIGN

----------------------------------------------------------------------------
(* Configuration values: JavaScript values of three types *)

Undefined == [t |-> "undefined", s |-> "", n |-> 0]
Str(x)    == [t |-> "string", s |-> x, n |-> 0]
Num(k)    == [t |-> "number", s |-> "", n |-> k]

\* JavaScript truthiness, as used by the || operator
Falsy(v) == v = Undefined \/ v = Str("") \/ v = Num(0)

OrElse(v, d) == IF Falsy(v) THEN d ELSE v

RuleKeys == {"no-hardcoded-ids", "require-semicolon", "camelcase-vars",
             "max-lines-per-function", "no-unused-maps",
             "enforce-timeout-awareness"}

\* defaultConfig of index.ts
defaultConfig ==
  [hasRules |-> TRUE,
   rules |-> [k \in RuleKeys |->
               CASE k = "no-hardcoded-ids" -> Str("warn")
                 [] k = "require-semicolon" -> Str("error")
                 [] k = "camelcase-vars" -> Str("warn")
                 [] k = "max-lines-per-function" -> Str("off")
                 [] k = "no-unused-maps" -> Str("warn")
                 [] k = "enforce-timeout-awareness" -> Str("warn")],
   exclude |-> TRUE]

----------------------------------------------------------------------------
(* analyzeDeluge, piece by piece *)

Diagnostic(lineNumber, type, ruleId) ==
  [line |-> lineNumber, type |-> type, ruleId |-> ruleId]

\* hardcodedIdRule === 'error' ? 'error' : 'warning' (and the three like it)
SeverityOf(rule) == IF rule = Str("error") THEN "error" ELSE "warning"

\* the max-lines-per-function check made once before the scan
MaxLinesCheck(ls, rules) ==
  LET maxLinesRule == rules["max-lines-per-function"]
  IN  IF maxLinesRule.t = "number" /\ Len(ls) > maxLinesRule.n
      THEN <<Diagnostic(1, "warning", "max-lines-per-function")>>
      ELSE <<>>

\* a '}' that removes the oldest frame instead of the newest
BraceStepShift(stack, expecting, brace) ==
  IF brace = LBRACE
  THEN [stack |-> Append(stack, expecting), expecting |-> FALSE]
  ELSE [stack |-> IF stack = <<>> THEN <<>> ELSE Tail(stack),
        expecting |-> expecting]

\* one brace of the line applied to (braceStack, expectingLoopBrace)
BraceStep(stack, expecting, brace) ==
  IF brace = LBRACE
  THEN [stack |-> Append(stack, expecting), expecting |-> FALSE]
  ELSE [stack |-> IF stack = <<>> THEN <<>> ELSE SubSeq(stack, 1, Len(stack) - 1),
        expecting |-> expecting]

\* the fallback of require-semicolon written as 'warn'
semicolonRuleWarn(rules) == OrElse(rules["require-semicolon"], Str("warn"))

hardcodedIdRule(rules) == OrElse(rules["no-hardcoded-ids"], Str("warn"))
semicolonRule(rules) == OrElse(rules["require-semicolon"], Str("error"))
camelCaseRule(rules) == OrElse(rules["camelcase-vars"], Str("warn"))
timeoutRule(rules) == OrElse(rules["enforce-timeout-awareness"], Str("warn"))

CheckHardcodedIds(content, lineNumber, rules) ==
  IF hardcodedIdRule(rules) # Str("off") /\ MatchesHardcodedId(content)
  THEN <<Diagnostic(lineNumber, SeverityOf(hardcodedIdRule(rules)), "no-hardcoded-ids")>>
  ELSE <<>>

\* the rule run without the test for 'off'
CheckSemicolonUnguarded(content, lineNumber, rules) ==
  IF MissingSemicolon(CodePart(Trim(content)))
  THEN <<Diagnostic(lineNumber, SeverityOf(semicolonRule(rules)), "require-semicolon")>>
  ELSE <<>>

CheckSemicolon(content, lineNumber, rules) ==
  IF semicolonRule(rules) # Str("off") /\ MissingSemicolon(CodePart(Trim(content)))
  THEN <<Diagnostic(lineNumber, SeverityOf(semicolonRule(rules)), "require-semicolon")>>
  ELSE <<>>

CheckCamelCase(content, lineNumber, rules) ==
  IF /\ camelCaseRule(rules) # Str("off")
     /\ AssignmentMatch(content) # <<>>
     /\ ~IsCamelCase(AssignmentMatch(content)[1])
  THEN <<Diagnostic(lineNumber, SeverityOf(camelCaseRule(rules)), "camelcase-vars")>>
  ELSE <<>>

\* braceStack.some(isLoop => isLoop)
IsInsideLoop(stack) == \E i \in 1..Len(stack) : stack[i]

CheckTimeout(content, lineNumber, stack, rules) ==
  IF /\ timeoutRule(rules) # Str("off")
     /\ IsInsideLoop(stack)
     /\ MatchesApiCall(content)
  THEN <<Diagnostic(lineNumber, SeverityOf(timeoutRule(rules)), "enforce-timeout-awareness")>>
  ELSE <<>>

\* the timeout check made first
RuleChecksTimeoutFirst(content, lineNumber, stack, rules) ==
  CheckTimeout(content, lineNumber, stack, rules)
    \o CheckHardcodedIds(content, lineNumber, rules)
    \o CheckSemicolon(content, lineNumber, rules)
    \o CheckCamelCase(content, lineNumber, rules)

\* the four rule checks of one line, in the order the callback makes them
RuleChecks(content, lineNumber, stack, rules) ==
  CheckHardcodedIds(content, lineNumber, rules)
    \o CheckSemicolon(content, lineNumber, rules)
    \o CheckCamelCase(content, lineNumber, rules)
    \o CheckTimeout(content, lineNumber, stack, rules)

----------------------------------------------------------------------------
(* cli.ts *)

\* any diagnostic, warning or error, fails the run
ExitStatusAny(results) == IF results # <<>> THEN 1 ELSE 0

\* hasError after results.forEach, as the status the process ends with
ExitStatus(results) ==
  IF \E i \in 1..Len(results) : results[i].type = "error" THEN 1 ELSE 0

----------------------------------------------------------------------------
(* analyzeDeluge as a function of its arguments *)

RECURSIVE ScanBraces(_, _, _)
ScanBraces(stack, expecting, bs) ==
  IF bs = <<>> THEN [stack |-> stack, expecting |-> expecting]
  ELSE LET s == BraceStep(stack, expecting, Head(bs))
       IN  ScanBraces(s.stack, s.expecting, Tail(bs))

\* the lines.forEach callback on one line
LineCallback(st, content, lineNumber, rules) ==
  IF IsCommentLine(Trim(content)) THEN st
  ELSE LET e == st.expecting \/ MatchesForEach(content)
           s == ScanBraces(st.stack, e, MatchBraces(content))
       IN  [stack |-> s.stack, expecting |-> s.expecting,
            errors |-> st.errors \o RuleChecks(content, lineNumber, s.stack, rules)]

RECURSIVE ForEachLine(_, _, _, _)
ForEachLine(st, ls, i, rules) ==
  IF i > Len(ls) THEN st
  ELSE ForEachLine(LineCallback(st, ls[i], i, rules), ls, i + 1, rules)

\* the scan of a whole text under a configuration that has a rules object
ScanAll(ls, rules) ==
  ForEachLine([stack |-> <<>>, expecting |-> FALSE,
               errors |-> MaxLinesCheck(ls, rules)], ls, 1, rules)

analyzeDeluge(ls, rules) == ScanAll(ls, rules).errors

----------------------------------------------------------------------------
(* Inputs: the configurations a loader supplies and the files read *)

SeverityValues == {Undefined, Str("error"), Str("warn"), Str("off"), Str("warning")}

MaxLinesValues == {Undefined, Str("off"), Str("100"), Num(2), Num(100)}

\* a .delugerc with a rules object: result.config is returned unmerged
UserConfigs ==
  {[hasRules |-> TRUE,
    rules |-> [k \in RuleKeys |->
                CASE k = "no-hardcoded-ids" -> h
                  [] k = "require-semicolon" -> s
                  [] k = "camelcase-vars" -> c
                  [] k = "max-lines-per-function" -> m
                  [] k = "no-unused-maps" -> Undefined
                  [] k = "enforce-timeout-awareness" -> t],
    exclude |-> TRUE] :
     h \in SeverityValues, s \in SeverityValues, c \in SeverityValues,
     t \in SeverityValues, m \in MaxLinesValues}

\* a .delugerc holding only "exclude": no rules object
noRulesConfig ==
  [hasRules |-> FALSE, rules |-> [k \in RuleKeys |-> Undefined], exclude |-> TRUE]

\* a .delugerc holding only "rules": {}
noExcludeConfig ==
  [hasRules |-> TRUE, rules |-> [k \in RuleKeys |-> Undefined], exclude |-> FALSE]

Configs == {defaultConfig, noRulesConfig, noExcludeConfig} \cup UserConfigs

\* lines of Deluge source
SourceLines ==
  { <<FOREACH>>,
    <<LBRACE>>,
    <<RBRACE>>,
    <<WS, APICALL, SEMI>>,
    <<FOREACH, LBRACE>>,
    <<FOREACH, LBRACE, APICALL, SEMI, RBRACE>>,
    <<APICALL, SEMI, RBRACE>>,
    <<IFKW, LBRACE, FOREACH>>,
    <<RBRACE, ELSEKW, LBRACE>>,
    <<LINECMT, FOREACH, LBRACE>>,
    <<WS, BLOCKCMT, RBRACE>>,
    <<BADASSIGN, INVOKE, RECORDID>>,
    <<GOODASSIGN, RECORDID, SEMI, LINECMT, WORD>>,
    <<FOREACH, LBRACE, FOREACH, LBRACE>> }

\* every text of 1..n lines
Texts(n) == UNION {[1..k -> SourceLines] : k \in 1..n}

\* two fixed scripts: a loop whose body breaks all four line rules, with a
\* comment line in between; and a script that breaks none
ProbeScripts ==
  { << <<FOREACH, LBRACE>>,
       <<LINECMT, RBRACE>>,
       <<WS, BADASSIGN, APICALL, RECORDID>> >>,
    << <<GOODASSIGN, WORD, SEMI>> >> }

\* the files linted under a configuration
FilesFor(cfg) ==
  IF cfg = defaultConfig THEN Texts(MaxLines) \cup ProbeScripts ELSE ProbeScripts

----------------------------------------------------------------------------
(* The run of the CLI on one file *)

Init ==
  /\ pc = "main"
  /\ config = defaultConfig
  /\ lines = <<>>
  /\ isExcluded = FALSE
  /\ fileRead = FALSE
  /\ errors = <<>>
  /\ braceStack = <<>>
  /\ expectingLoopBrace = FALSE
  /\ index = 0
  /\ braces = <<>>
  /\ bi = 0
  /\ exitCode = -1

\* const config = await getConfig()
GetConfig ==
  /\ pc = "main"
  /\ \E cfg \in Configs : config' = cfg
  /\ pc' = "exclusions"
  /\ UNCHANGED <<lines, isExcluded, fileRead, errors, braceStack,
                 expectingLoopBrace, index, braces, bi, exitCode>>

\* the exclusion check; matches is whether minimatch accepts some pattern
CheckExclusions ==
  /\ pc = "exclusions"
  /\ \E matches \in BOOLEAN :
       /\ isExcluded' = (config.exclude /\ matches)
       /\ pc' = IF config.exclude /\ matches THEN "exited" ELSE "read"
       /\ exitCode' = IF config.exclude /\ matches THEN 0 ELSE exitCode
  /\ UNCHANGED <<config, lines, fileRead, errors, braceStack,
                 expectingLoopBrace, index, braces, bi>>

\* fs.readFileSync(filePath, 'utf-8') returns the text
ReadFile ==
  /\ pc = "read"
  /\ \E text \in FilesFor(config) : lines' = text
  /\ fileRead' = TRUE
  /\ pc' = "analyze"
  /\ UNCHANGED <<config, isExcluded, errors, braceStack, expectingLoopBrace,
                 index, braces, bi, exitCode>>

\* fs.readFileSync throws (no such file)
ReadFileFails ==
  /\ pc = "read"
  /\ pc' = "threw"
  /\ UNCHANGED <<config, lines, isExcluded, fileRead, errors, braceStack,
                 expectingLoopBrace, index, braces, bi, exitCode>>

\* entry of analyzeDeluge up to lines.forEach
AnalyzeEntry ==
  /\ pc = "analyze"
  /\ config.hasRules
  /\ errors' = MaxLinesCheck(lines, config.rules)
  /\ braceStack' = <<>>
  /\ expectingLoopBrace' = FALSE
  /\ index' = 1
  /\ pc' = "line"
  /\ UNCHANGED <<config, lines, isExcluded, fileRead, braces, bi, exitCode>>

\* config.rules is undefined: reading a property of it throws a TypeError
AnalyzeThrows ==
  /\ pc = "analyze"
  /\ ~config.hasRules
  /\ pc' = "threw"
  /\ UNCHANGED <<config, lines, isExcluded, fileRead, errors, braceStack,
                 expectingLoopBrace, index, braces, bi, exitCode>>

\* the callback returns at once on a comment line
SkipComment ==
  /\ pc = "line"
  /\ index <= Len(lines)
  /\ IsCommentLine(Trim(lines[index]))
  /\ index' = index + 1
  /\ UNCHANGED <<pc, config, lines, isExcluded, fileRead, errors, braceStack,
                 expectingLoopBrace, braces, bi, exitCode>>

\* the keyword scan and content.match(/[{}]/g)
BeginLine ==
  /\ pc = "line"
  /\ index <= Len(lines)
  /\ ~IsCommentLine(Trim(lines[index]))
  /\ expectingLoopBrace' = (expectingLoopBrace \/ MatchesForEach(lines[index]))
  /\ braces' = MatchBraces(lines[index])
  /\ bi' = 0
  /\ pc' = "braces"
  /\ UNCHANGED <<config, lines, isExcluded, fileRead, errors, braceStack,
                 index, exitCode>>

\* one turn of braces.forEach
ScanBrace ==
  /\ pc = "braces"
  /\ bi < Len(braces)
  /\ LET s == BraceStep(braceStack, expectingLoopBrace, braces[bi + 1])
     IN  /\ braceStack' = s.stack
         /\ expectingLoopBrace' = s.expecting
  /\ bi' = bi + 1
  /\ UNCHANGED <<pc, config, lines, isExcluded, fileRead, errors, index,
                 braces, exitCode>>

\* the four rule checks, ending the callback for this line
CheckRules ==
  /\ pc = "braces"
  /\ bi = Len(braces)
  /\ errors' = errors \o RuleChecks(lines[index], index, braceStack, config.rules)
  /\ index' = index + 1
  /\ braces' = <<>>
  /\ bi' = 0
  /\ pc' = "line"
  /\ UNCHANGED <<config, lines, isExcluded, fileRead, braceStack,
                 expectingLoopBrace, exitCode>>

\* return errors
Return ==
  /\ pc = "line"
  /\ index > Len(lines)
  /\ pc' = "returned"
  /\ UNCHANGED <<config, lines, isExcluded, fileRead, errors, braceStack,
                 expectingLoopBrace, index, braces, bi, exitCode>>

\* the report loop; process.exit(1) on an error, else main ends
Report ==
  /\ pc = "returned"
  /\ exitCode' = ExitStatus(errors)
  /\ pc' = "exited"
  /\ UNCHANGED <<config, lines, isExcluded, fileRead, errors, braceStack,
                 expectingLoopBrace, index, braces, bi>>

\* catch (error) { ...; process.exit(1) }
Catch ==
  /\ pc = "threw"
  /\ exitCode' = 1
  /\ pc' = "exited"
  /\ UNCHANGED <<config, lines, isExcluded, fileRead, errors, braceStack,
                 expectingLoopBrace, index, braces, bi>>

Next ==
  \/ GetConfig
  \/ CheckExclusions
  \/ ReadFile
  \/ ReadFileFails
  \/ AnalyzeEntry
  \/ AnalyzeThrows
  \/ SkipComment
  \/ BeginLine
  \/ ScanBrace
  \/ CheckRules
  \/ Return
  \/ Report
  \/ Catch

Spec == Init /\ [][Next]_vars

----------------------------------------------------------------------------
(* What the claims speak of, read off the text itself *)

PerLineRules == {"no-hardcoded-ids", "require-semicolon", "camelcase-vars",
                 "enforce-timeout-awareness"}

\* a line whose trimmed text starts with '//' or '/*'
StartsWithComment(content) ==
  LET t == TrimLeft(content)
  IN  t # <<>> /\ Head(t) \in {LINECMT, BLOCKCMT}

\* the indices of the diagnostics of rule r in a list
Of(results, r) == {i \in 1..Len(results) : results[i].ruleId = r}

\* the diagnostics of the rules in rs, in list order
Only(results, rs) == SelectSeq(results, LAMBDA d : d.ruleId \in rs)

Scanning == pc \in {"line", "braces", "returned"}

\* A reading of the text one piece at a time: the keyword arms the next '{'
\* at the place where it stands, a '{' opens a frame, a '}' closes the
\* innermost open frame, and a call is inside a loop body if some frame open
\* at the place of the call is a loop frame.
PieceRead(st, t) ==
  CASE t = FOREACH -> [st EXCEPT !.pending = TRUE]
    [] t = LBRACE -> [st EXCEPT !.frames = Append(@, st.pending), !.pending = FALSE]
    [] t = RBRACE -> [st EXCEPT !.frames = IF @ = <<>> THEN <<>>
                                           ELSE SubSeq(@, 1, Len(@) - 1)]
    [] t \in {APICALL, INVOKE} ->
         [st EXCEPT !.call = @ \/ (\E i \in 1..Len(st.frames) : st.frames[i])]
    [] OTHER -> st

RECURSIVE PiecesRead(_, _, _, _)
PiecesRead(st, content, k, upto) ==
  IF k > upto THEN st
  ELSE PiecesRead(PieceRead(st, content[k]), content, k + 1, upto)

RECURSIVE ReadUpTo(_, _)
ReadUpTo(ls, n) ==
  IF n = 0 THEN [frames |-> <<>>, pending |-> FALSE, call |-> FALSE]
  ELSE LET before == ReadUpTo(ls, n - 1)
       IN  IF StartsWithComment(ls[n]) THEN before
           ELSE PiecesRead([before EXCEPT !.call = FALSE], ls[n], 1, Len(ls[n]))

\* line n holds an API call that lies inside the body of a 'for each' loop
CallInsideLoopBody(ls, n) == ReadUpTo(ls, n).call

\* the place in the line of its j-th brace
BracePlace(content, j) ==
  CHOOSE p \in 1..Len(content) :
    /\ IsBrace(content[p])
    /\ Cardinality({q \in 1..p : IsBrace(content[q])}) = j

\* whether a 'for each' stands before place p of line n with no '{' between
KeywordPending(ls, n, p) ==
  PiecesRead(ReadUpTo(ls, n - 1), ls[n], 1, p - 1).pending

----------------------------------------------------------------------------
(* C1 *)

\* C1: with enforce-timeout-awareness enabled, every non-comment line gets
\* exactly one enforce-timeout-awareness diagnostic if it holds an API call
\* lying inside the brace-delimited body of a 'for each' loop, and none
\* otherwise, wherever the braces fall relative to the line breaks.
C1_TimeoutIffCallInsideLoopBody ==
  (pc = "returned"
     /\ config.rules["enforce-timeout-awareness"] \in {Str("error"), Str("warn")})
  => \A n \in 1..Len(lines) :
       ~StartsWithComment(lines[n]) =>
         Cardinality({i \in Of(errors, "enforce-timeout-awareness") :
                        errors[i].line = n})
           = IF CallInsideLoopBody(lines, n) THEN 1 ELSE 0

----------------------------------------------------------------------------
(* C9 *)

\* C9: a '{' is pushed as a loop frame exactly when a 'for each' keyword
\* stands before it in scan order with no other '{' in between; a '{' that
\* stands before the keyword on the same line is not marked by it.
C9_LoopFrameIsFirstBraceAfterKeyword ==
  (pc = "braces" /\ bi > 0 /\ braces[bi] = LBRACE)
  => braceStack[Len(braceStack)]
       = KeywordPending(lines, index, BracePlace(lines[index], bi))

----------------------------------------------------------------------------
(* C5 *)

BracesIn(content) == SelectSeq(content, IsBrace)

\* the value of the pending-loop flag when the j-th brace of line l is scanned
FlagWhenScanned(ls, l, j) ==
  LET atStart == ScanAll(SubSeq(ls, 1, l - 1), config.rules).expecting
  IN  ScanBraces(<<>>, atStart \/ MatchesForEach(ls[l]),
                 SubSeq(BracesIn(ls[l]), 1, j - 1)).expecting

\* the first upto braces of line l, each with the flag it was scanned under
BraceEvents(ls, l, upto) ==
  [k \in 1..upto |-> [b |-> BracesIn(ls[l])[k], loop |-> FlagWhenScanned(ls, l, k)]]

RECURSIVE EventsBefore(_, _)
EventsBefore(ls, l) ==
  IF l <= 1 THEN <<>>
  ELSE EventsBefore(ls, l - 1)
         \o (IF StartsWithComment(ls[l - 1]) THEN <<>>
             ELSE BraceEvents(ls, l - 1, Len(BracesIn(ls[l - 1]))))

\* every brace scanned so far, in scan order
ScannedEvents ==
  EventsBefore(lines, index)
    \o (IF pc = "braces" THEN BraceEvents(lines, index, bi) ELSE <<>>)

\* the number of '{' minus the number of '}' among ev[i..k]
Balance(ev, i, k) ==
  Cardinality({q \in i..k : ev[q].b = LBRACE})
    - Cardinality({q \in i..k : ev[q].b = RBRACE})

\* the '{' of ev that no later '}' of ev has matched
Unmatched(ev) ==
  {i \in 1..Len(ev) :
     ev[i].b = LBRACE /\ \A k \in i..Len(ev) : Balance(ev, i, k) >= 1}

\* C5: after every scanned brace the stack depth is the number of '{' not yet
\* matched by a later '}' (a '}' on the empty stack changes nothing); the
\* inside-loop query is true only if an unmatched '{' was pushed as a loop
\* frame; and no sequence of braces makes the scan throw.
C5_StackIsUnmatchedBraces ==
  /\ Scanning =>
       LET ev == ScannedEvents
           open == Unmatched(ev)
       IN  /\ Len(braceStack) = Cardinality(open)
           /\ IsInsideLoop(braceStack) => \E i \in open : ev[i].loop
  /\ (pc = "threw" /\ fileRead) => ~config.hasRules

\* a '}' has just been scanned on an empty stack
C5_Witness ==
  /\ pc = "braces" /\ bi > 0 /\ braces[bi] = RBRACE
  /\ braceStack = <<>>
  /\ LET ev == ScannedEvents
     IN  /\ Unmatched(SubSeq(ev, 1, Len(ev) - 1)) = {}
         /\ \E i \in 1..Len(ev) : ev[i].loop

----------------------------------------------------------------------------
(* C2 *)

\* the place of a per-line rule in the order of evaluation
Rank(r) ==
  CASE r = "no-hardcoded-ids" -> 1
    [] r = "require-semicolon" -> 2
    [] r = "camelcase-vars" -> 3
    [] r = "enforce-timeout-awareness" -> 4
    [] OTHER -> 0

\* C2: the returned list is sorted by line ascending (the
\* max-lines-per-function diagnostic, attributed to line 1, included), and
\* diagnostics of the same line come in the order no-hardcoded-ids,
\* require-semicolon, camelcase-vars, enforce-timeout-awareness.
C2_OrderedByLineThenRule ==
  \A i \in 1..Len(errors) : \A j \in (i + 1)..Len(errors) :
    /\ errors[i].line <= errors[j].line
    /\ (errors[i].line = errors[j].line /\ errors[i].ruleId \in PerLineRules)
         => Rank(errors[i].ruleId) < Rank(errors[j].ruleId)

\* a returned list with the file-level diagnostic and all four rules on one
\* later line
C2_Witness ==
  /\ pc = "returned"
  /\ Of(errors, "max-lines-per-function") # {}
  /\ \E n \in 2..Len(lines) : \A r \in PerLineRules :
       \E i \in Of(errors, r) : errors[i].line = n

----------------------------------------------------------------------------
(* C3 *)

\* C3: a rule configured "off" has no diagnostic in the list, whatever the
\* text and the other rules' settings.
C3_OffRuleIsSilent ==
  \A r \in PerLineRules \cup {"max-lines-per-function"} :
    config.rules[r] = Str("off") => Of(errors, r) = {}

\* a scan is over in which a switched-off rule met text that breaks it while
\* other rules reported
C3_Witness ==
  /\ pc = "returned"
  /\ config.rules["require-semicolon"] = Str("off")
  /\ \E n \in 1..Len(lines) :
       ~StartsWithComment(lines[n]) /\ MissingSemicolon(CodePart(Trim(lines[n])))
  /\ errors # <<>>

----------------------------------------------------------------------------
(* C4 *)

\* the Default column of the README's rule table
DocumentedDefault(r) ==
  CASE r = "no-hardcoded-ids" -> Str("warn")
    [] r = "require-semicolon" -> Str("error")
    [] r = "camelcase-vars" -> Str("warn")
    [] r = "enforce-timeout-awareness" -> Str("warn")
    [] r = "max-lines-per-function" -> Str("off")

WithDocumentedDefaults(rules) ==
  [k \in RuleKeys |->
     IF rules[k] = Undefined /\ k \in PerLineRules \cup {"max-lines-per-function"}
     THEN DocumentedDefault(k) ELSE rules[k]]

\* C4: a severity rule configured 'error' emits only errors and one configured
\* 'warn' only warnings; a configuration with rule keys absent yields the list
\* it yields with each absent key set to its documented default.
C4_SeverityAndDefaults ==
  pc = "returned" =>
    /\ \A i \in 1..Len(errors) :
         errors[i].ruleId \in PerLineRules =>
           /\ config.rules[errors[i].ruleId] = Str("error") => errors[i].type = "error"
           /\ config.rules[errors[i].ruleId] = Str("warn") => errors[i].type = "warning"
    /\ errors = analyzeDeluge(lines, WithDocumentedDefaults(config.rules))

\* require-semicolon is absent from the rules and has reported an error
C4_Witness ==
  /\ pc = "returned"
  /\ config.rules["require-semicolon"] = Undefined
  /\ config.rules["max-lines-per-function"] = Undefined
  /\ \E i \in Of(errors, "require-semicolon") : errors[i].type = "error"
  /\ \E i \in Of(errors, "camelcase-vars") : errors[i].type = "warning"

----------------------------------------------------------------------------
(* C6 *)

\* C6: analyzeDeluge never throws, whatever configuration object the loader
\* supplied: once the file is read, the call returns a list.
C6_AnalyzeNeverThrows == ~(pc = "threw" /\ fileRead)

----------------------------------------------------------------------------
(* C7 *)

\* a rule value that is present and is none of the values the rule knows
Malformed(r, v) ==
  /\ v # Undefined
  /\ IF r = "max-lines-per-function"
     THEN v.t # "number" /\ v # Str("off")
     ELSE v \notin {Str("error"), Str("warn"), Str("off")}

\* C7: a rule whose configured value is unknown or malformed either emits
\* nothing or emits exactly what it emits at its documented default, with the
\* same severities.
C7_MalformedDisablesOrDefaults ==
  pc = "returned" =>
    \A r \in PerLineRules \cup {"max-lines-per-function"} :
      Malformed(r, config.rules[r]) =>
        LET got == Only(errors, {r})
            atDefault ==
              Only(analyzeDeluge(lines, [config.rules EXCEPT ![r] = DocumentedDefault(r)]),
                   {r})
        IN  got = <<>> \/ got = atDefault

----------------------------------------------------------------------------
(* C8 *)

\* analyzeDeluge returned its list to main
Returned == fileRead /\ index = Len(lines) + 1

\* C8: the process ends with a non-zero status if the returned list holds an
\* error, and with status zero if the list is empty or holds only warnings;
\* an excluded file ends with status zero and is never read or analysed.
C8_ExitStatus ==
  pc = "exited" =>
    /\ isExcluded => (exitCode = 0 /\ ~fileRead /\ index = 0 /\ errors = <<>>)
    /\ (Returned /\ (\E i \in 1..Len(errors) : errors[i].type = "error"))
         => exitCode # 0
    /\ (Returned /\ ~(\E i \in 1..Len(errors) : errors[i].type = "error"))
         => exitCode = 0

\* the process has ended on a list that holds warnings only
C8_Witness ==
  /\ pc = "exited"
  /\ Returned
  /\ errors # <<>>
  /\ \A i \in 1..Len(errors) : errors[i].type = "warning"

----------------------------------------------------------------------------
(* C10 *)

CommentsBefore(ls, n) == Cardinality({m \in 1..(n - 1) : StartsWithComment(ls[m])})

\* the text with its comment lines removed (a text always has a line)
WithoutComments(ls) ==
  LET kept == SelectSeq(ls, LAMBDA c : ~StartsWithComment(c))
  IN  IF kept = <<>> THEN << <<>> >> ELSE kept

\* the diagnostics with each line number counted in the text without comments
Renumbered(results, ls) ==
  [i \in 1..Len(results) |->
     [results[i] EXCEPT !.line = @ - CommentsBefore(ls, @)]]

ScopeAfter(ls) ==
  LET st == ScanAll(ls, config.rules) IN <<st.stack, st.expecting>>

CommentLinesAreInert ==
  /\ pc = "line" =>
       <<braceStack, expectingLoopBrace>>
         = ScopeAfter(WithoutComments(SubSeq(lines, 1, index - 1)))
  /\ pc = "returned" =>
       \A i \in 1..Len(errors) :
         errors[i].ruleId \in PerLineRules => ~StartsWithComment(lines[errors[i].line])

\* C10 (as stated): comment lines leave the scope state unchanged and get no
\* per-line diagnostic, and removing them changes neither the scope state seen
\* by later lines nor the rule ids, severities and order of the diagnostics of
\* the other lines.
C10_CommentLinesChangeNothing ==
  /\ CommentLinesAreInert
  /\ pc = "returned" =>
       Renumbered(errors, lines) = analyzeDeluge(WithoutComments(lines), config.rules)

\* C10 (amended): as above, for the diagnostics of the four per-line rules;
\* the max-lines-per-function diagnostic counts comment lines too.
C10_CommentLinesChangeNoLineRule ==
  /\ CommentLinesAreInert
  /\ pc = "returned" =>
       Renumbered(Only(errors, PerLineRules), lines)
         = Only(analyzeDeluge(WithoutComments(lines), config.rules), PerLineRules)

\* a comment line holding a brace or the keyword came before a line that got
\* a diagnostic
C10_Witness ==
  /\ pc = "returned"
  /\ \E n \in 1..Len(lines) :
       /\ StartsWithComment(lines[n])
       /\ (BracesIn(lines[n]) # <<>> \/ MatchesForEach(lines[n]))
       /\ \E i \in Of(errors, "enforce-timeout-awareness") : errors[i].line > n

====
